---- MODULE Spec2Model ----
(***************************************************************************)
(* Employee Productivity Analysis System (app.py).                         *)
(*                                                                         *)
(* The model follows one upload through /api/analyze: column validation,   *)
(* calculate_productivity, generate_summary_stats and the JSON response,   *)
(* and then the re-analysis of the workbook written by /api/export-excel.  *)
(*                                                                         *)
(* Number representation (exact fixed point, no binary floating point):    *)
(*   Actual_Hours and average_hours      integer thousandths of an hour    *)
(*   Productivity_Percentage, averages   integer hundredths of a percent   *)
(*   Standard_Hours, Leave_Days, Leave_Hours_Deduction, Expected_Hours     *)
(*                                       integers                          *)
(* so .round(2) is the identity on a percentage computed to hundredths and *)
(* rounds an hours value to a multiple of 10 thousandths.  numpy rounds    *)
(* halves to even.                                                         *)
(*                                                                         *)
(* A DataFrame is [columns |-> set of names, rows |-> sequence of rows],   *)
(* a row being a function from the column names to values.  DataFrames     *)
(* live in a heap and are held by reference, as Python objects are.        *)
(***************************************************************************)
EXTENDS Integers, Sequences, FiniteSets, TLC

VARIABLES heap, df, df_processed, response, exported, reanalysed, first_upload, pc

vars == <<heap, df, df_processed, response, exported, reanalysed, first_upload, pc>>

-----------------------------------------------------------------------------
(* Constants of app.py *)

FULLTIME_STANDARD_HOURS == 200
PARTTIME_STANDARD_HOURS == 100
HOURS_PER_LEAVE_DAY == 8
PRODUCTIVITY_THRESHOLD == 90

required_columns ==
    {"Employee_ID", "Name", "Department", "Employment_Type", "Actual_Hours", "Leave_Days"}

-----------------------------------------------------------------------------
(* Bounds and the uploaded files drawn *)

MaxRows == 3

\* 'Contract' stands for any value that is neither 'Full-Time' nor 'Part-Time'.
EmploymentTypeValues == {"Full-Time", "Part-Time", "Contract"}

\* 0 leaves the standard hours; 25 days deduct 200 hours.
LeaveDaysValues == {0, 25}

\* 89.994 h and 90 h, in thousandths of an hour: of 100 expected hours they are
\* 89.99 % and 90.00 %, and of 1 expected hour 89.994 h is 8999.4 % while the
\* 89.99 h it is displayed as would be 8999 %.
ActualHoursValues == {89994, 90000}

departments == <<"Engineering", "Sales">>

\* Python object identities, and the absent reference
ObjectIds == {"obj1", "obj2"}
None == "None"

\* The employee of the i-th row: EMP000i, 'Employee i', departments in turn.
InputRow(i, t, a, l) ==
    [f \in required_columns |->
        CASE f = "Employee_ID" -> i
          [] f = "Name" -> <<"Employee", i>>
          [] f = "Department" -> departments[((i - 1) % Len(departments)) + 1]
          [] f = "Employment_Type" -> t
          [] f = "Actual_Hours" -> a
          [] f = "Leave_Days" -> l]

Timesheets == EmploymentTypeValues \X ActualHoursValues \X LeaveDaysValues

\* The file of n rows filled in from the timesheets ts[1] .. ts[n]
File(n, ts) ==
    [columns |-> required_columns,
     rows |-> [i \in 1..n |-> InputRow(i, ts[i][1], ts[i][2], ts[i][3])]]

-----------------------------------------------------------------------------
(* pandas operations used by app.py *)

Column(d, col) == [i \in 1..Len(d.rows) |-> d.rows[i][col]]

\* df[col] = values
SetColumn(d, col, values) ==
    [columns |-> d.columns \cup {col},
     rows |-> [i \in 1..Len(d.rows) |->
                 [f \in d.columns \cup {col} |->
                     IF f = col THEN values[i] ELSE d.rows[i][f]]]]

\* df without the column col (a file whose header lacks it)
DropColumn(d, col) ==
    [columns |-> d.columns \ {col},
     rows |-> [i \in 1..Len(d.rows) |->
                 [f \in d.columns \ {col} |-> d.rows[i][f]]]]

RECURSIVE SelectRows(_, _, _)
\* df[df[col] == value]
SelectRows(rows, col, value) ==
    IF rows = <<>> THEN <<>>
    ELSE IF Head(rows)[col] = value
         THEN <<Head(rows)>> \o SelectRows(Tail(rows), col, value)
         ELSE SelectRows(Tail(rows), col, value)

Filter(d, col, value) == [columns |-> d.columns, rows |-> SelectRows(d.rows, col, value)]

RECURSIVE Sum(_)
Sum(s) == IF s = <<>> THEN 0 ELSE Head(s) + Sum(Tail(s))

\* n / d rounded to the nearest integer, halves to even (n >= 0, d > 0)
RoundHalfEven(n, d) ==
    LET q == n \div d
        r == n % d
    IN  IF 2 * r < d THEN q
        ELSE IF 2 * r > d THEN q + 1
        ELSE IF q % 2 = 0 THEN q ELSE q + 1

\* Series.round(2) of hours held in thousandths
RoundHours(a) == RoundHalfEven(a, 10) * 10


-----------------------------------------------------------------------------
(* calculate_productivity, statement by statement *)

\* lambda x: FULLTIME_STANDARD_HOURS if x == 'Full-Time' else PARTTIME_STANDARD_HOURS
StandardHours(x) ==
    IF x = "Full-Time" THEN FULLTIME_STANDARD_HOURS ELSE PARTTIME_STANDARD_HOURS

AddStandardHours(d) ==
    SetColumn(d, "Standard_Hours",
              [i \in 1..Len(d.rows) |-> StandardHours(d.rows[i]["Employment_Type"])])

AddLeaveHoursDeduction(d) ==
    SetColumn(d, "Leave_Hours_Deduction",
              [i \in 1..Len(d.rows) |-> d.rows[i]["Leave_Days"] * HOURS_PER_LEAVE_DAY])

AddExpectedHours(d) ==
    SetColumn(d, "Expected_Hours",
              [i \in 1..Len(d.rows) |->
                  d.rows[i]["Standard_Hours"] - d.rows[i]["Leave_Hours_Deduction"]])

\* The floor set to the hours of one leave day instead of 1.
ClipExpectedHoursAtLeaveDay(d) ==
    SetColumn(d, "Expected_Hours",
              [i \in 1..Len(d.rows) |->
                  IF d.rows[i]["Expected_Hours"] < HOURS_PER_LEAVE_DAY
                  THEN HOURS_PER_LEAVE_DAY
                  ELSE d.rows[i]["Expected_Hours"]])

\* Rows with no expected hours dropped instead of clipped.
DropNonPositiveExpectedHours(d) ==
    [columns |-> d.columns,
     rows |-> SelectSeq(d.rows, LAMBDA r : r["Expected_Hours"] >= 1)]

\* df['Expected_Hours'].clip(lower=1)
ClipExpectedHours(d) ==
    SetColumn(d, "Expected_Hours",
              [i \in 1..Len(d.rows) |->
                  IF d.rows[i]["Expected_Hours"] < 1 THEN 1
                  ELSE d.rows[i]["Expected_Hours"]])

\* The ratio taken from the hours already rounded for display.
AddProductivityPercentageOfRounded(d) ==
    SetColumn(d, "Productivity_Percentage",
              [i \in 1..Len(d.rows) |->
                  RoundHalfEven(RoundHours(d.rows[i]["Actual_Hours"]) * 10,
                                d.rows[i]["Expected_Hours"])])

\* (Actual_Hours / Expected_Hours * 100).round(2): thousandths of an hour over
\* hours, times 100, in hundredths of a percent, is a * 10 / e.
AddProductivityPercentage(d) ==
    SetColumn(d, "Productivity_Percentage",
              [i \in 1..Len(d.rows) |->
                  RoundHalfEven(d.rows[i]["Actual_Hours"] * 10,
                                d.rows[i]["Expected_Hours"])])

\* The two tests written with strict comparisons: exactly 90 is neither.
ProductivityStatusStrict(x) ==
    IF x > PRODUCTIVITY_THRESHOLD * 100 THEN "Productive"
    ELSE IF x < PRODUCTIVITY_THRESHOLD * 100 THEN "Not Productive"
    ELSE "Borderline"

\* lambda x: 'Productive' if x >= PRODUCTIVITY_THRESHOLD else 'Not Productive'
ProductivityStatus(x) ==
    IF x >= PRODUCTIVITY_THRESHOLD * 100 THEN "Productive" ELSE "Not Productive"

AddProductivityStatus(d) ==
    SetColumn(d, "Productivity_Status",
              [i \in 1..Len(d.rows) |->
                  ProductivityStatus(d.rows[i]["Productivity_Percentage"])])

\* The wrong column rounded into Actual_Hours (Expected_Hours, in thousandths).
RoundExpectedIntoActualHours(d) ==
    SetColumn(d, "Actual_Hours",
              [i \in 1..Len(d.rows) |-> RoundHours(d.rows[i]["Expected_Hours"] * 1000)])

\* df['Actual_Hours'] = df['Actual_Hours'].round(2)
RoundActualHours(d) ==
    SetColumn(d, "Actual_Hours",
              [i \in 1..Len(d.rows) |-> RoundHours(d.rows[i]["Actual_Hours"])])

\* The statements of lines 62-82 applied in order to the frame the local name holds.
Enrich(d) ==
    RoundActualHours(
      AddProductivityStatus(
        AddProductivityPercentage(
          ClipExpectedHours(
            AddExpectedHours(
              AddLeaveHoursDeduction(
                AddStandardHours(d)))))))

\* The local name keeps pointing at the caller's object.
NoCopy(h, ref) == ref

\* df.copy(): the identity of the new object
DataFrameCopy(h, ref) == CHOOSE o \in ObjectIds : o \notin DOMAIN h

Store(h, ref, d) == [o \in DOMAIN h \cup {ref} |-> IF o = ref THEN d ELSE h[o]]

\* calculate_productivity(df): the heap after the call and the reference returned
calculate_productivity(h, ref) ==
    LET local == DataFrameCopy(h, ref)
        h1 == Store(h, local, h[ref])
    IN  [heap |-> Store(h1, local, Enrich(h1[local])), result |-> local]

-----------------------------------------------------------------------------
(* generate_summary_stats *)

AttributeError == [raised |-> TRUE, error |-> "'float' object has no attribute 'round'"]

Return(v) == [raised |-> FALSE, value |-> v]

Count(d, col, value) == Len(SelectRows(d.rows, col, value))

\* Series.mean() of values a scale-th of the unit, then .round(2) in
\* hundredths of the unit.  The mean of an empty Series is the Python float
\* nan, which has no round method.
MeanRound2(s, scale) ==
    IF s = <<>> THEN AttributeError
    ELSE Return(RoundHalfEven(Sum(s) * 100, Len(s) * scale) * (scale \div 100))

MeanPercentage(d) == MeanRound2(Column(d, "Productivity_Percentage"), 100)

MeanHours(d) == MeanRound2(Column(d, "Actual_Hours"), 1000)

EmptyDict == [x \in {} |-> x]

\* if len(ft_df) > 0
SegmentNonEmpty(seg) == Len(seg.rows) > 0

SegmentStats(seg) ==
    [count |-> Len(seg.rows),
     productive |-> Count(seg, "Productivity_Status", "Productive"),
     not_productive |-> Count(seg, "Productivity_Status", "Not Productive"),
     average_productivity |-> MeanPercentage(seg).value,
     average_hours |-> MeanHours(seg).value]

\* df.groupby('Department').agg({... 'mean', ... 'count'}).round(2).to_dict('index')
DepartmentStats(d) ==
    LET present == {d.rows[i]["Department"] : i \in 1..Len(d.rows)}
    IN  [dept \in present |->
            [Productivity_Percentage |-> MeanPercentage(Filter(d, "Department", dept)).value,
             Employee_ID |-> Count(d, "Department", dept)]]

generate_summary_stats(d) ==
    LET average == MeanPercentage(d)
        ft_df == Filter(d, "Employment_Type", "Full-Time")
        pt_df == Filter(d, "Employment_Type", "Part-Time")
    IN  IF average.raised THEN average
        ELSE Return(
            [total_employees |-> Len(d.rows),
             productive_count |-> Count(d, "Productivity_Status", "Productive"),
             not_productive_count |-> Count(d, "Productivity_Status", "Not Productive"),
             average_productivity |-> average.value,
             fulltime_stats |-> IF SegmentNonEmpty(ft_df) THEN SegmentStats(ft_df) ELSE EmptyDict,
             parttime_stats |-> IF SegmentNonEmpty(pt_df) THEN SegmentStats(pt_df) ELSE EmptyDict,
             department_stats |-> DepartmentStats(d)])

-----------------------------------------------------------------------------
(* The uploaded files *)

NoFile == [columns |-> {}, rows |-> <<>>]

NoResponse == [status |-> 0]

-----------------------------------------------------------------------------
(* analyze_productivity and export_excel *)

\* [col for col in required_columns if col not in df.columns]
missing_columns(d) == required_columns \ d.columns

\* pd.DataFrame(data['data']): the columns are the keys of the records
DataFrameOfRecords(records) ==
    [columns |-> IF records = <<>> THEN {} ELSE DOMAIN records[1], rows |-> records]

Init ==
    /\ \E n \in 0..MaxRows, header \in {"complete", "incomplete"} :
          \E ts \in [1..n -> Timesheets] :
             \* a header lacking Employment_Type is drawn with at most one row
             /\ header = "incomplete" => n <= 1
             /\ heap = [o \in {"obj1"} |->
                          IF header = "complete" THEN File(n, ts)
                          ELSE DropColumn(File(n, ts), "Employment_Type")]
             /\ first_upload = heap["obj1"]
    /\ df = "obj1"
    /\ df_processed = None
    /\ response = NoResponse
    /\ exported = NoFile
    /\ reanalysed = FALSE
    /\ pc = "uploaded"

\* lines 169-173
RejectMissingColumns ==
    /\ pc = "uploaded"
    /\ missing_columns(heap[df]) # {}
    /\ response' = [status |-> 400, error |-> <<"Missing columns", missing_columns(heap[df])>>]
    /\ pc' = "responded"
    /\ UNCHANGED <<heap, df, df_processed, exported, reanalysed, first_upload>>

\* line 176
CalculateProductivity ==
    /\ pc = "uploaded"
    /\ missing_columns(heap[df]) = {}
    /\ LET r == calculate_productivity(heap, df)
       IN  /\ heap' = r.heap
           /\ df_processed' = r.result
    /\ pc' = "calculated"
    /\ UNCHANGED <<df, response, exported, reanalysed, first_upload>>

\* lines 179-192
SummarizeAndRespond ==
    /\ pc = "calculated"
    /\ LET d == heap[df_processed]
           summary == generate_summary_stats(d)
       IN  response' =
             IF summary.raised
             THEN [status |-> 500, error |-> summary.error]
             ELSE [status |-> 200,
                   summary |-> summary.value,
                   data |-> d.rows,
                   fulltime_data |-> Filter(d, "Employment_Type", "Full-Time").rows,
                   parttime_data |-> Filter(d, "Employment_Type", "Part-Time").rows]
    /\ pc' = "responded"
    /\ UNCHANGED <<heap, df, df_processed, exported, reanalysed, first_upload>>

\* export_excel writes the response's data as the sheet 'All Employees', the
\* first sheet of the workbook; uploaded again, read_excel reads that sheet.
ReanalyseExport ==
    /\ pc = "responded"
    /\ response.status = 200
    /\ ~reanalysed
    /\ exported' = DataFrameOfRecords(response.data)
    /\ heap' = [o \in {"obj1"} |-> exported']
    /\ df' = "obj1"
    /\ df_processed' = None
    /\ response' = NoResponse
    /\ reanalysed' = TRUE
    /\ pc' = "uploaded"
    /\ UNCHANGED first_upload

Next ==
    \/ RejectMissingColumns
    \/ CalculateProductivity
    \/ SummarizeAndRespond
    \/ ReanalyseExport

Spec == Init /\ [][Next]_vars

-----------------------------------------------------------------------------
(* Properties *)

Input == heap[df]

Processed == heap[df_processed]

Calculated == df_processed # None

Summarized == pc = "responded" /\ response.status = 200

ValidEmploymentTypes == {"Full-Time", "Part-Time"}

HasInvalidEmploymentType(d) ==
    /\ "Employment_Type" \in d.columns
    /\ \E i \in 1..Len(d.rows) : d.rows[i]["Employment_Type"] \notin ValidEmploymentTypes

\* C1: an upload holding a record whose Employment_Type is neither 'Full-Time'
\* nor 'Part-Time' is rejected with a validation failure, and no enriched
\* table is produced from it.
C1_InvalidEmploymentTypeRejected ==
    HasInvalidEmploymentType(Input) =>
        /\ ~Calculated
        /\ pc = "responded" => response.status = 400

\* C2: in every processed row Standard_Hours is 200 for Full-Time and 100 for
\* Part-Time, Expected_Hours = max(1, Standard_Hours - Leave_Days * 8), so
\* Expected_Hours >= 1, and it is exactly 1 when the difference is <= 0.
C2_ExpectedHoursFloor ==
    Calculated =>
        \A i \in 1..Len(Processed.rows) :
            LET r == Processed.rows[i]
                raw == r["Standard_Hours"] - r["Leave_Days"] * 8
            IN  /\ r["Employment_Type"] = "Full-Time" => r["Standard_Hours"] = 200
                /\ r["Employment_Type"] = "Part-Time" => r["Standard_Hours"] = 100
                /\ r["Expected_Hours"] = IF raw > 1 THEN raw ELSE 1
                /\ r["Expected_Hours"] >= 1
                /\ raw <= 0 => r["Expected_Hours"] = 1

\* A Full-Time row with 25 leave days and a Part-Time row with at least 13 were
\* floored to 1 expected hour, next to a row that was not floored.
C2_Witness ==
    /\ Calculated
    /\ \E i, j, k \in 1..Len(Processed.rows) :
          /\ Processed.rows[i]["Employment_Type"] = "Full-Time"
          /\ Processed.rows[i]["Leave_Days"] = 25
          /\ Processed.rows[i]["Expected_Hours"] = 1
          /\ Processed.rows[j]["Employment_Type"] = "Part-Time"
          /\ Processed.rows[j]["Leave_Days"] >= 13
          /\ Processed.rows[j]["Expected_Hours"] = 1
          /\ Processed.rows[k]["Expected_Hours"] > 1

\* C3: a processed row is 'Productive' exactly when its rounded percentage is
\* >= 90.00 and 'Not Productive' otherwise; there is no third status.
C3_StatusAtThreshold ==
    Calculated =>
        \A i \in 1..Len(Processed.rows) :
            LET r == Processed.rows[i]
            IN  /\ r["Productivity_Status"] \in {"Productive", "Not Productive"}
                /\ r["Productivity_Status"] = "Productive"
                      <=> r["Productivity_Percentage"] >= 9000

\* A row at exactly 90.00 % is Productive and a row at 89.99 % is not.
C3_Witness ==
    /\ Calculated
    /\ \E i, j \in 1..Len(Processed.rows) :
          /\ Processed.rows[i]["Productivity_Percentage"] = 9000
          /\ Processed.rows[i]["Productivity_Status"] = "Productive"
          /\ Processed.rows[j]["Productivity_Percentage"] = 8999
          /\ Processed.rows[j]["Productivity_Status"] = "Not Productive"

\* C4: the percentage of a processed row is the supplied, unrounded
\* Actual_Hours over Expected_Hours times 100 rounded to 2 decimals, the status
\* follows that percentage, and the Actual_Hours shown is the supplied value
\* rounded to 2 decimals.
C4_PercentageFromUnroundedHours ==
    Calculated =>
        /\ Len(Processed.rows) = Len(Input.rows)
        /\ \A i \in 1..Len(Processed.rows) :
              LET r == Processed.rows[i]
                  supplied == Input.rows[i]["Actual_Hours"]
                  percentage == RoundHalfEven(supplied * 10, r["Expected_Hours"])
              IN  /\ r["Productivity_Percentage"] = percentage
                  /\ r["Productivity_Status"] = "Productive" <=> percentage >= 9000
                  /\ r["Actual_Hours"] = RoundHalfEven(supplied, 10) * 10

\* A row whose hours changed when rounded for display and whose percentage is
\* not the one the displayed hours would give.
C4_Witness ==
    /\ Calculated
    /\ \E i \in 1..Len(Processed.rows) :
          LET r == Processed.rows[i]
          IN  /\ Input.rows[i]["Actual_Hours"] # r["Actual_Hours"]
              /\ r["Productivity_Percentage"]
                    # RoundHalfEven(r["Actual_Hours"] * 10, r["Expected_Hours"])

\* C5: every summary returned has
\* productive_count + not_productive_count = total_employees.
C5_StatusCountsAddUp ==
    Summarized =>
        response.summary.productive_count + response.summary.not_productive_count
            = response.summary.total_employees

\* A summary with employees of both statuses.
C5_Witness ==
    /\ Summarized
    /\ response.summary.productive_count > 0
    /\ response.summary.not_productive_count > 0

\* C6: in every summary whose fulltime_stats and parttime_stats are both
\* non-empty, their counts add up to total_employees.
C6_SegmentsCoverAll ==
    (/\ Summarized
     /\ response.summary.fulltime_stats # EmptyDict
     /\ response.summary.parttime_stats # EmptyDict)
        => response.summary.fulltime_stats.count + response.summary.parttime_stats.count
              = response.summary.total_employees

\* C7: a complete upload of zero rows is answered with an empty enriched table
\* and a summary of zero counts and empty segments, no error being raised.
C7_EmptyInputSummarized ==
    (/\ pc = "responded"
     /\ missing_columns(Input) = {}
     /\ Len(Input.rows) = 0)
        => /\ response.status = 200
           /\ response.data = <<>>
           /\ response.summary.total_employees = 0
           /\ response.summary.productive_count = 0
           /\ response.summary.not_productive_count = 0
           /\ response.summary.fulltime_stats = EmptyDict
           /\ response.summary.parttime_stats = EmptyDict

SameOnReanalysis(i, col) == Processed.rows[i][col] = exported.rows[i][col]

\* C8 as stated: re-analysing the exported table gives every row the same
\* Actual_Hours, Expected_Hours, Productivity_Percentage and
\* Productivity_Status as the first analysis did.
C8_Idempotent ==
    (reanalysed /\ Calculated) =>
        \A i \in 1..Len(exported.rows) :
            /\ SameOnReanalysis(i, "Actual_Hours")
            /\ SameOnReanalysis(i, "Expected_Hours")
            /\ SameOnReanalysis(i, "Productivity_Percentage")
            /\ SameOnReanalysis(i, "Productivity_Status")

\* C8 amended: re-analysing the exported table gives every row the same
\* Actual_Hours and Expected_Hours, and the same Productivity_Percentage and
\* Productivity_Status for every row whose supplied Actual_Hours had at most
\* two decimals.
C8_IdempotentOnTwoDecimalHours ==
    (reanalysed /\ Calculated) =>
        /\ Len(Processed.rows) = Len(exported.rows)
        /\ \A i \in 1..Len(exported.rows) :
              /\ SameOnReanalysis(i, "Actual_Hours")
              /\ SameOnReanalysis(i, "Expected_Hours")
              /\ first_upload.rows[i]["Actual_Hours"] % 10 = 0
                    => /\ SameOnReanalysis(i, "Productivity_Percentage")
                       /\ SameOnReanalysis(i, "Productivity_Status")

\* A re-analysis with one row of two-decimal hours, unchanged, and one row of
\* three-decimal hours whose percentage changed.
C8_Witness ==
    /\ reanalysed
    /\ Calculated
    /\ \E i, j \in 1..Len(exported.rows) :
          /\ first_upload.rows[i]["Actual_Hours"] % 10 = 0
          /\ SameOnReanalysis(i, "Productivity_Percentage")
          /\ first_upload.rows[j]["Actual_Hours"] % 10 # 0
          /\ ~SameOnReanalysis(j, "Productivity_Percentage")

CarriedColumns == {"Employee_ID", "Name", "Department", "Employment_Type", "Leave_Days"}

\* C9: the processed table has as many rows as the input, row i carries the
\* Employee_ID, Name, Department, Employment_Type and Leave_Days of input row
\* i, and row i is what the input row alone, as a table of one row, gives.
C9_RowWiseMap ==
    Calculated =>
        /\ Len(Processed.rows) = Len(Input.rows)
        /\ \A i \in 1..Len(Processed.rows) :
              /\ \A col \in CarriedColumns : Processed.rows[i][col] = Input.rows[i][col]
              /\ Processed.rows[i]
                    = Enrich([columns |-> Input.columns, rows |-> <<Input.rows[i]>>]).rows[1]

\* A processed table of several rows that differ in type, hours and leave,
\* one of them floored to 1 expected hour.
C9_Witness ==
    /\ Calculated
    /\ Len(Processed.rows) >= 3
    /\ Processed.rows[1]["Employment_Type"] # Processed.rows[2]["Employment_Type"]
    /\ Processed.rows[2]["Leave_Days"] # Processed.rows[3]["Leave_Days"]
    /\ Processed.rows[1]["Productivity_Percentage"] # Processed.rows[3]["Productivity_Percentage"]
    /\ Processed.rows[1]["Expected_Hours"] = 1

\* C10: calculate_productivity leaves the caller's table as it was, the same
\* object with the same columns and values, and generate_summary_stats leaves
\* every table as it was.
C10_InputsNotMutated ==
    [][/\ (pc = "uploaded" /\ pc' = "calculated") => (df' = df /\ heap'[df] = heap[df])
       /\ (pc = "calculated" /\ pc' = "responded") => heap' = heap]_vars

\* After both calls the caller's table still has the six uploaded columns and
\* its three-decimal hours, beside a distinct enriched table.
C10_Witness ==
    /\ Summarized
    /\ ~reanalysed
    /\ Input = first_upload
    /\ Input.columns = required_columns
    /\ \E i \in 1..Len(Input.rows) : Input.rows[i]["Actual_Hours"] % 10 # 0
    /\ df_processed # df
    /\ "Productivity_Status" \in Processed.columns

=============================================================================
